---- MODULE Spec2Model ----
(***************************************************************************)
(* State-machine model of the APAC-DIA-Training-DE scripts:                *)
(*   scripts/load_to_bronze.py   (read_file, load_entity, load_to_bronze)  *)
(*   scripts/generate_data.py    (the synthetic data generator)            *)
(*   scripts/1load_to_bronze.py, clean_up_duckDB.py, show_schemas.py,      *)
(*   column_name_stg.py          (DuckDB maintenance scripts)              *)
(* One set of variables; each program has its own Init and Next.           *)
(***************************************************************************)
EXTENDS Integers, Sequences, FiniteSets, TLC

\* ------------------------------------------------------------------ bounds
\* largest --workers value explored
MaxWorkers == 2
\* longest file_list of a direct load_entity call
MaxFiles == 2
\* lines of an events_*.jsonl file
LinesPerFile == 2
\* rows a readable tabular file holds
RowsPerFile == 2
\* files of the raw directory that are missing or damaged in one run
MaxFaults == 1
\* largest total_orders / chunk_orders explored
MaxOrders == 26
\* largest total_events of a direct generate_events call
MaxEvents == 7
\* largest days of a direct generate_events call
MaxDays == 3
\* largest years of a direct generate_exchange_rates_xlsx call
MaxYears == 3

VARIABLES
    prog,        \* which program runs: "load_entity", "load_to_bronze", ...
    \* ---- load_to_bronze.py: one load_entity call
    entity_name, \* load_entity's entity_name argument
    file_list,   \* load_entity's file_list argument
    workers,     \* max_workers of the ThreadPoolExecutor
    epc,         \* position of the calling thread inside load_entity
    status,      \* per submitted read_file call: queued/running/done
    result,      \* per call: the DataFrame read_file is about to return / returned
    raised,      \* per call: the exception the try body raised, or "none"
    linesRead,   \* per call: lines of the events file consumed so far
    records,     \* per call: read_events_jsonl's records list
    writes,      \* per call: the objects and files the call has written
    processed,   \* load_entity's processed counter
    yielded,     \* results the executor.map iterator has handed out
    dfs,         \* load_entity's dfs list
    merged,      \* load_entity's return value
    \* ---- process-wide
    log,         \* load_errors.log, one element per appended entry
    reads,       \* per path: how often read_file was invoked on it
    faultsLeft,  \* damaged/missing files the environment may still reveal (-1: any)
    \* ---- load_to_bronze.py: load_to_bronze
    lpc,         \* position inside load_to_bronze
    eidx,        \* index of the entity the for loop is at
    df,          \* load_to_bronze's df
    con,         \* the DuckDB connection: "none", "open", "closed"
    tables,      \* DuckDB file: entity -> content of bronze_<entity> (or NoFrame)
    parquet,     \* lake/bronze: entity -> content of bronze_<entity>.parquet
    summary,     \* load_to_bronze's summary list
    visited,     \* entities whose loop iteration has ended, in order
    \* ---- generate_data.py: generate_orders_partitioned
    opc,           \* position inside generate_orders_partitioned
    total_orders,  \* the total_orders argument
    chunk_orders,  \* the chunk_orders argument
    remaining,     \* orders still to generate
    next_order_id, \* first order_id of the next chunk
    start_ts,      \* first timestamp of the next chunk, hours after 2024-01-01
    headerFiles,   \* per date: rows of orders/order_dt=<date>/orders_header_<date>.csv
    linesFiles,    \* per date: order_ids with lines in orders_lines_<date>.csv
    \* ---- the scripts that work on duckdb/warehouse.duckdb
    script,         \* which script runs
    spc,            \* position inside the script
    dbcon,          \* the script's connection: "none", "open", "closed"
    schemata,       \* the schemas of the DuckDB file
    catalog,        \* the tables and views of the DuckDB file
    taskIdx,        \* 1load_to_bronze.py: index of the task the loop is at
    schemas,        \* the scripts' schemas list
    schTables,      \* clean_up_duckDB.py: tables still to drop in the schema
    staging_tables, \* column_name_stg.py: staging_tables
    savedCsv,       \* column_name_stg.py: tables in staging_table_columns.csv
    existing,       \* 1load_to_bronze.py: load_xlsx's existing, a table_type or None
    \* ---- generate_data.py: main, run twice
    gpc,       \* position inside the script
    run,       \* 1 for the first run of the script, 2 for the second
    args,      \* the parsed command line
    FAKE,      \* the module's FAKE: None or the entropy its Faker started from
    callIdx,   \* index of the generator call main is at
    out,       \* the output folder: per generator, what it wrote
    firstOut,  \* the output folder as the first run left it
    stamp,     \* per generator, the run that wrote its file; 0 for no file
    mastersSeen, \* per master, the stamp of the file the orders generator read
    \* ---- generate_data.py: the volumes written
    vpc,         \* position inside the call
    vcall,       \* the call made: main with a command line, or one generator
    targets,     \* main's orders_target, sensors_target, events_target, ...
    orderIds,    \* how many order ids generate_orders_partitioned handed out
    store,       \* generate_sensors_partitioned's loop variable
    sensorRows,  \* rows written to sensors partition files so far
    sensorFiles, \* the distinct (rows, rows at 999.0) of the partition files
    day,         \* generate_events' loop variable
    eventFiles,  \* per day, the lines written to events_<date>.jsonl
    rates        \* the rows of exchange_rates.xlsx

entityVars == <<entity_name, file_list, workers, epc, status, result, raised,
                linesRead, records, writes, processed, yielded, dfs, merged>>
sharedVars == <<log, reads, faultsLeft>>
bronzeVars == <<lpc, eidx, df, con, tables, parquet, summary, visited>>
loadVars == <<entityVars, sharedVars, bronzeVars>>
ordersVars == <<opc, total_orders, chunk_orders, remaining, next_order_id,
                start_ts, headerFiles, linesFiles>>
\* the variables of the programs other than load_to_bronze.py
scriptVars == <<script, spc, dbcon, schemata, catalog, taskIdx, schemas,
                schTables, staging_tables, savedCsv, existing>>
genVars == <<gpc, run, args, FAKE, callIdx, out, firstOut, stamp, mastersSeen>>
volVars == <<vpc, vcall, targets, orderIds, store, sensorRows, sensorFiles, day,
             eventFiles, rates>>
otherVars == <<ordersVars, scriptVars, genVars, volVars>>
vars == <<prog, loadVars, otherVars>>

\* ------------------------------------------------------- sequences, helpers
Range(s) == {s[i] : i \in DOMAIN s}

IsInfix(s, t) ==
    \E i \in 0..(Len(t) - Len(s)) : SubSeq(t, i + 1, i + Len(s)) = s

IsPrefix(s, t) == Len(s) <= Len(t) /\ SubSeq(t, 1, Len(s)) = s

RECURSIVE Flatten(_)
Flatten(ss) == IF ss = <<>> THEN <<>> ELSE Head(ss) \o Flatten(Tail(ss))

RECURSIVE SelectPaths(_, _)
SelectPaths(s, keep) ==
    IF s = <<>> THEN <<>>
    ELSE IF Head(s) \in keep THEN <<Head(s)>> \o SelectPaths(Tail(s), keep)
         ELSE SelectPaths(Tail(s), keep)

\* all sequences without repetition over S of length 0..n
RECURSIVE Arrangements(_, _)
Arrangements(S, n) ==
    IF n = 0 THEN {<<>>}
    ELSE LET prev == Arrangements(S, n - 1)
         IN prev \cup UNION {{Append(s, x) : x \in S \ Range(s)} : s \in prev}

\* ---------------------------------------------- the raw directory's layout
\* The tree generate_data.py writes under --out (one partition per
\* partitioned dataset, two days of events), in directory-scan order. Directories are listed too:
\* Path.rglob("*") yields them.
RawLayout == <<
    "customers.csv", "products.csv", "stores.csv", "suppliers.csv",
    "orders",
    "orders/order_dt=D1",
    "orders/order_dt=D1/orders_header_D1.csv",
    "orders/orders_lines",
    "orders/orders_lines/order_dt=D1",
    "orders/orders_lines/order_dt=D1/orders_lines_D1.csv",
    "events",
    "events/events_D1.jsonl",
    "events/events_D2.jsonl",
    "sensors",
    "sensors/store_id=1",
    "sensors/store_id=1/month=M1",
    "sensors/store_id=1/month=M1/sensors_1_M1.csv",
    "exchange_rates.xlsx", "shipments.parquet",
    "returns_v1.parquet", "returns_v2.parquet",
    "returns_upsert.csv", "returns_delete.csv" >>

Paths == Range(RawLayout)

Directories == {"orders", "orders/order_dt=D1", "orders/orders_lines",
                "orders/orders_lines/order_dt=D1", "events", "sensors",
                "sensors/store_id=1", "sensors/store_id=1/month=M1"}

\* A path relative to the raw directory as the sequence of its pieces, so that
\* substring tests ("pt in str(p)") are computed, not tabulated.
RelTokens(p) ==
    CASE p = "customers.csv" -> <<"customers", ".csv">>
      [] p = "products.csv" -> <<"products", ".csv">>
      [] p = "stores.csv" -> <<"stores", ".csv">>
      [] p = "suppliers.csv" -> <<"suppliers", ".csv">>
      [] p = "orders" -> <<"orders">>
      [] p = "orders/order_dt=D1" -> <<"orders", "/", "order_dt", "=", "D1">>
      [] p = "orders/order_dt=D1/orders_header_D1.csv" ->
            <<"orders", "/", "order_dt", "=", "D1", "/",
              "orders_header", "_", "D1", ".csv">>
      [] p = "orders/orders_lines" -> <<"orders", "/", "orders_lines">>
      [] p = "orders/orders_lines/order_dt=D1" ->
            <<"orders", "/", "orders_lines", "/", "order_dt", "=", "D1">>
      [] p = "orders/orders_lines/order_dt=D1/orders_lines_D1.csv" ->
            <<"orders", "/", "orders_lines", "/", "order_dt", "=", "D1", "/",
              "orders_lines", "_", "D1", ".csv">>
      [] p = "events" -> <<"events">>
      [] p = "events/events_D1.jsonl" ->
            <<"events", "/", "events", "_", "D1", ".jsonl">>
      [] p = "events/events_D2.jsonl" ->
            <<"events", "/", "events", "_", "D2", ".jsonl">>
      [] p = "sensors" -> <<"sensors">>
      [] p = "sensors/store_id=1" -> <<"sensors", "/", "store_id", "=", "1">>
      [] p = "sensors/store_id=1/month=M1" ->
            <<"sensors", "/", "store_id", "=", "1", "/", "month", "=", "M1">>
      [] p = "sensors/store_id=1/month=M1/sensors_1_M1.csv" ->
            <<"sensors", "/", "store_id", "=", "1", "/", "month", "=", "M1", "/",
              "sensors", "_", "1", "_", "M1", ".csv">>
      [] p = "exchange_rates.xlsx" -> <<"exchange_rates", ".xlsx">>
      [] p = "shipments.parquet" -> <<"shipments", ".parquet">>
      [] p = "returns_v1.parquet" -> <<"returns", "_", "v1", ".parquet">>
      [] p = "returns_v2.parquet" -> <<"returns", "_", "v2", ".parquet">>
      [] p = "returns_upsert.csv" -> <<"returns", "_", "upsert", ".csv">>
      [] p = "returns_delete.csv" -> <<"returns", "_", "delete", ".csv">>

\* str(p) for p under raw_path: the raw directory's own name comes first
PathStr(p) == <<"data_raw", "/">> \o RelTokens(p)

RECURSIVE Basename(_)
Basename(t) ==
    IF \E i \in DOMAIN t : t[i] = "/"
    THEN Basename(Tail(t))
    ELSE t

Extensions == {".csv", ".parquet", ".json", ".jsonl", ".xls", ".xlsx"}

\* os.path.splitext(filepath)[1].lower()
Ext(p) ==
    LET b == Basename(PathStr(p))
    IN IF Len(b) > 1 /\ b[Len(b)] \in Extensions THEN b[Len(b)] ELSE ""

\* the columns each dataset is written with
Columns(p) ==
    CASE p = "customers.csv" ->
            {"customer_id", "natural_key", "first_name", "last_name", "email",
             "phone", "address_line1", "address_line2", "city", "state_region",
             "postcode", "country_code", "latitude", "longitude", "birth_date",
             "join_ts", "is_vip", "gdpr_consent"}
      [] p = "products.csv" ->
            {"product_id", "sku", "name", "category", "subcategory",
             "current_price", "currency", "is_discontinued", "introduced_dt",
             "discontinued_dt"}
      [] p = "stores.csv" ->
            {"store_id", "store_code", "name", "channel", "region", "state",
             "latitude", "longitude", "open_dt", "close_dt"}
      [] p = "suppliers.csv" ->
            {"supplier_id", "supplier_code", "name", "country_code",
             "lead_time_days", "preferred"}
      [] p = "orders/order_dt=D1/orders_header_D1.csv" ->
            {"order_id", "order_ts", "order_dt", "order_dt_local", "customer_id",
             "store_id", "channel", "payment_method", "coupon_code",
             "shipping_fee", "currency"}
      [] p = "orders/orders_lines/order_dt=D1/orders_lines_D1.csv" ->
            {"order_id", "line_number", "product_id", "qty", "unit_price",
             "line_discount_pct", "tax_pct"}
      [] p \in {"events/events_D1.jsonl", "events/events_D2.jsonl"} ->
            {"event_id", "event_ts", "event_type", "user_id", "session_id",
             "value"}
      [] p = "sensors/store_id=1/month=M1/sensors_1_M1.csv" ->
            {"sensor_ts", "store_id", "shelf_id", "temperature_c",
             "humidity_pct", "battery_mv"}
      [] p = "exchange_rates.xlsx" -> {"date", "currency", "rate_to_aud"}
      [] p = "shipments.parquet" ->
            {"shipment_id", "order_id", "carrier", "shipped_at", "delivered_at",
             "ship_cost"}
      [] p = "returns_v1.parquet" ->
            {"return_id", "order_id", "product_id", "return_ts", "qty", "reason"}
      [] p \in {"returns_v2.parquet", "returns_upsert.csv"} ->
            {"return_id", "order_id", "product_id", "return_ts", "qty", "reason",
             "return_reason_code"}
      [] p = "returns_delete.csv" -> {"return_id"}
      [] OTHER -> {}

\* ------------------------------------------------------------- DataFrames
\* A DataFrame: its rows in index order (each row named by the file and the
\* position it was read from) and its column labels.
EmptyFrame == [rows |-> <<>>, cols |-> {}, dt |-> FALSE]
\* marks a table or file that does not exist
NoFrame == [rows |-> <<"absent">>, cols |-> {}, dt |-> FALSE]

\* what a Future holds when its call ended with an exception
ExceptionFrame(kind) == [rows |-> <<"exception">>, cols |-> {kind}, dt |-> FALSE]
IsException(d) == d.rows = <<"exception">>

\* DataFrame.empty
IsEmpty(d) == d.rows = <<>> \/ d.cols = {}

\* pd.read_csv / read_parquet / read_excel / read_json on a readable file
FileFrame(p, n) ==
    [rows |-> [k \in 1..n |-> <<p, k>>], cols |-> Columns(p), dt |-> FALSE]

\* pd.DataFrame(records) for the first n parsed event lines
RecordsFrame(p, recs) ==
    IF recs = <<>> THEN EmptyFrame
    ELSE [rows |-> [k \in 1..Len(recs) |-> <<p, recs[k]>>],
          cols |-> Columns(p), dt |-> FALSE]

\* pd.concat(dfs, ignore_index=True)
Concat(frames) ==
    [rows |-> Flatten([k \in 1..Len(frames) |-> frames[k].rows]),
     cols |-> UNION {frames[k].cols : k \in 1..Len(frames)},
     dt |-> FALSE]

\* a normalisation that drops the rows it cannot parse
DropUnparsedRows(d) == [d EXCEPT !.rows = <<>>, !.dt = TRUE]

\* normalize_datetime_columns: every object column is passed through
\* pd.to_datetime(errors='coerce'); rows and column labels stay as they are
normalize_datetime_columns(d) == [d EXCEPT !.dt = TRUE]

\* ------------------------------------------------ load_to_bronze.py: read_file
\* which reader read_file picks for a path
ReadBranch(p) ==
    LET ext == Ext(p)
    IN CASE ext = ".csv" -> "read_csv"
         [] ext = ".parquet" -> "read_parquet"
         [] ext \in {".json", ".jsonl"} ->
               IF IsInfix(<<"events">>, Basename(PathStr(p)))
               THEN "read_events_jsonl"
               ELSE "read_json"
         [] ext \in {".xls", ".xlsx"} -> "read_excel"
         [] OTHER -> "unsupported"

LibraryReaders == {"read_csv", "read_parquet", "read_json", "read_excel"}

Calls == DOMAIN file_list

\* variant: the calls keep their locals in one module-level object
ModuleLevelObj(i, name) == <<name, 0>>

\* an object only the call i can reach (a local variable of its frame)
LocalObj(i, name) == <<name, i>>
\* the one file every call appends to
LogFile == <<"load_errors.log", 0>>
\* the Future executor.map created for call i
FutureObj(i) == <<"future", i>>

\* an entry of load_errors.log: line = 0 for read_file's own entry,
\* line = i for read_events_jsonl's entry about line i
LogEntry(p, line) == [path |-> p, line |-> line]

CanFault == faultsLeft # 0
SpendFault(n) == IF faultsLeft > 0 THEN faultsLeft - n ELSE faultsLeft

Busy == {j \in Calls : status[j] = "running"}

\* a worker thread takes the next work item off the executor's queue and
\* enters read_file
Start(i) ==
    /\ epc = "iterating"
    /\ status[i] = "queued"
    /\ \A j \in 1..(i - 1) : status[j] # "queued"
    /\ Cardinality(Busy) < workers
    /\ status' = [status EXCEPT ![i] = "running"]
    /\ reads' = [reads EXCEPT ![file_list[i]] = @ + 1]
    /\ UNCHANGED <<prog, otherVars, entity_name, file_list, workers, epc, result, raised,
                   linesRead, records, writes, processed, yielded, dfs, merged,
                   log, faultsLeft, bronzeVars>>

\* what read_file's except branch appends to load_errors.log
HandlerEntries(p) == <<LogEntry(p, 0)>>

\* the exceptions the readers raise; all derive from Exception
ExceptionClasses == {"ValueError", "OSError", "AttributeError"}

\* variant: "except ValueError as e"
CaughtValueError(kind) == kind = "ValueError"

\* "except Exception as e"
Caught(kind) == kind \in ExceptionClasses

\* variant: the handler logs the failure and puts the call back on the queue
RaiseAndRetry(i, kind) ==
    /\ raised' = [raised EXCEPT ![i] = kind]
    /\ status' = [status EXCEPT ![i] = "queued"]
    /\ log' = log \o HandlerEntries(file_list[i])
    /\ writes' = [writes EXCEPT ![i] = @ \cup {LogFile}]
    /\ UNCHANGED result

\* the try body raised: "except Exception" appends to load_errors.log and
\* read_file returns pd.DataFrame(); an exception the clause does not catch
\* would leave read_file and end up in the call's Future
Raise(i, kind) ==
    /\ raised' = [raised EXCEPT ![i] = kind]
    /\ status' = [status EXCEPT ![i] = "done"]
    /\ IF Caught(kind)
       THEN /\ log' = log \o HandlerEntries(file_list[i])
            /\ result' = [result EXCEPT ![i] = EmptyFrame]
            /\ writes' = [writes EXCEPT ![i] = @ \cup {LogFile, FutureObj(i)}]
       ELSE /\ result' = [result EXCEPT ![i] = ExceptionFrame(kind)]
            /\ writes' = [writes EXCEPT ![i] = @ \cup {FutureObj(i)}]
            /\ UNCHANGED log

\* pd.read_csv / read_parquet / read_json (with its json.load fallback) /
\* read_excel: a frame, a frame without rows, or an exception
LibraryRead(i) ==
    /\ status[i] = "running"
    /\ ReadBranch(file_list[i]) \in LibraryReaders
    /\ \/ /\ result' = [result EXCEPT ![i] = FileFrame(file_list[i], RowsPerFile)]
          /\ status' = [status EXCEPT ![i] = "done"]
          /\ writes' = [writes EXCEPT ![i] = @ \cup {LocalObj(i, "df"), FutureObj(i)}]
          /\ UNCHANGED <<faultsLeft, log, raised>>
       \/ /\ CanFault
          /\ result' = [result EXCEPT ![i] = FileFrame(file_list[i], 0)]
          /\ status' = [status EXCEPT ![i] = "done"]
          /\ writes' = [writes EXCEPT ![i] = @ \cup {LocalObj(i, "df"), FutureObj(i)}]
          /\ faultsLeft' = SpendFault(1)
          /\ UNCHANGED <<log, raised>>
       \/ /\ CanFault
          /\ faultsLeft' = SpendFault(1)
          /\ Raise(i, "OSError")
    /\ UNCHANGED <<prog, otherVars, entity_name, file_list, workers, epc, linesRead,
                   records, processed, yielded, dfs, merged, reads, bronzeVars>>

\* the else branch: raise ValueError("Unsupported file type")
Unsupported(i) ==
    /\ status[i] = "running"
    /\ ReadBranch(file_list[i]) = "unsupported"
    /\ Raise(i, "ValueError")
    /\ UNCHANGED <<prog, otherVars, entity_name, file_list, workers, epc, linesRead,
                   records, processed, yielded, dfs, merged, reads, faultsLeft,
                   bronzeVars>>

\* read_events_jsonl, one line of the file: a JSON object (appended to
\* records), a blank line (skipped), malformed JSON (JSONDecodeError, logged
\* with its line number), or a line that makes the loop raise something else
\* (JSON that is not an object, undecodable bytes), which read_file catches
EventsLine(i) ==
    /\ status[i] = "running"
    /\ ReadBranch(file_list[i]) = "read_events_jsonl"
    /\ linesRead[i] < LinesPerFile
    /\ linesRead' = [linesRead EXCEPT ![i] = @ + 1]
    /\ \/ /\ records' = [records EXCEPT ![i] = Append(@, linesRead[i] + 1)]
          /\ writes' = [writes EXCEPT ![i] = @ \cup {LocalObj(i, "records")}]
          /\ UNCHANGED <<status, log, faultsLeft, result, raised>>
       \/ /\ CanFault
          /\ faultsLeft' = SpendFault(1)
          /\ UNCHANGED <<records, writes, status, log, result, raised>>
       \/ /\ CanFault
          /\ faultsLeft' = SpendFault(1)
          /\ log' = Append(log, LogEntry(file_list[i], linesRead[i] + 1))
          /\ writes' = [writes EXCEPT ![i] = @ \cup {LogFile}]
          /\ UNCHANGED <<records, status, result, raised>>
       \/ /\ CanFault
          /\ faultsLeft' = SpendFault(1)
          /\ Raise(i, "AttributeError")
          /\ UNCHANGED records
    /\ UNCHANGED <<prog, otherVars, entity_name, file_list, workers, epc, processed, yielded,
                   dfs, merged, reads, bronzeVars>>

\* read_events_jsonl at the end of the file: return pd.DataFrame(records)
EventsEof(i) ==
    /\ status[i] = "running"
    /\ ReadBranch(file_list[i]) = "read_events_jsonl"
    /\ linesRead[i] = LinesPerFile
    /\ result' = [result EXCEPT ![i] = RecordsFrame(file_list[i], records[i])]
    /\ status' = [status EXCEPT ![i] = "done"]
    /\ writes' = [writes EXCEPT ![i] = @ \cup {LocalObj(i, "df"), FutureObj(i)}]
    /\ UNCHANGED <<prog, otherVars, entity_name, file_list, workers, epc, raised, linesRead,
                   records, processed, yielded, dfs, merged, sharedVars,
                   bronzeVars>>

\* --------------------------------------------- load_to_bronze.py: load_entity
\* executor.map(read_file, file_list): one Future per path, all queued
MapSubmit ==
    /\ epc = "entered"
    /\ epc' = "iterating"
    /\ status' = [i \in Calls |-> "queued"]
    /\ UNCHANGED <<prog, otherVars, entity_name, file_list, workers, result, raised,
                   linesRead, records, writes, processed, yielded, dfs, merged,
                   sharedVars, bronzeVars>>

\* variant: results handed out as they complete (as_completed)
ReadyAsCompleted(i) == status[i] = "done"

\* the result the map iterator hands out next: results come in the order of
\* file_list, each as soon as its Future is done
ReadyToYield(i) == i = processed + 1 /\ status[i] = "done"

\* one turn of "for df in executor.map(...)"; a Future that holds an
\* exception re-raises it here, which ends load_entity and its caller
Yield(i) ==
    /\ epc = "iterating"
    /\ i \notin yielded
    /\ ReadyToYield(i)
    /\ yielded' = yielded \cup {i}
    /\ IF IsException(result[i])
       THEN /\ epc' = "aborted"
            /\ lpc' = IF lpc = "loading" THEN "aborted" ELSE lpc
            /\ UNCHANGED <<processed, dfs>>
       ELSE /\ processed' = processed + 1
            /\ dfs' = IF ~IsEmpty(result[i]) THEN Append(dfs, result[i]) ELSE dfs
            /\ UNCHANGED <<epc, lpc>>
    /\ UNCHANGED <<prog, otherVars, entity_name, file_list, workers, status, result,
                   raised, linesRead, records, writes, merged, sharedVars,
                   eidx, df, con, tables, parquet, summary, visited>>

\* the for loop is over once the iterator is exhausted
LoopOver == yielded = Calls

\* the with blocks are left (executor.shutdown(wait=True)), then
\* "if not dfs: return pd.DataFrame()" or "return pd.concat(dfs)"
EntityReturn ==
    /\ epc = "iterating"
    /\ LoopOver
    /\ \A j \in Calls : status[j] \in {"done", "queued"}
    /\ merged' = IF dfs = <<>> THEN EmptyFrame ELSE Concat(dfs)
    /\ epc' = "returned"
    /\ lpc' = IF lpc = "loading" THEN "loaded" ELSE lpc
    /\ UNCHANGED <<prog, otherVars, entity_name, file_list, workers, status, result, raised,
                   linesRead, records, writes, processed, yielded, dfs,
                   sharedVars, eidx, df, con, tables, parquet, summary, visited>>

NextEntity ==
    \/ MapSubmit
    \/ \E i \in Calls : Start(i)
    \/ \E i \in Calls : LibraryRead(i)
    \/ \E i \in Calls : Unsupported(i)
    \/ \E i \in Calls : EventsLine(i)
    \/ \E i \in Calls : EventsEof(i)
    \/ \E i \in Calls : Yield(i)
    \/ EntityReturn

\* ------------------------------------------ load_to_bronze.py: load_to_bronze
\* the keys of the entities dict, in insertion order
Entities == <<"customers", "products", "stores", "suppliers", "orders_header",
              "orders_lines", "events", "sensors", "exchange_rates",
              "shipments", "returns">>

EntityNames == Range(Entities)

\* the values of the entities dict, each pattern cut into the same pieces as
\* the paths
Patterns(e) ==
    CASE e = "customers" -> <<(<<"customers", ".csv">>)>>
      [] e = "products" -> <<(<<"products", ".csv">>)>>
      [] e = "stores" -> <<(<<"stores", ".csv">>)>>
      [] e = "suppliers" -> <<(<<"suppliers", ".csv">>)>>
      [] e = "orders_header" -> <<(<<"orders_header">>), (<<"order_dt">>)>>
      [] e = "orders_lines" -> <<(<<"orders_lines">>)>>
      [] e = "events" -> <<(<<"events", "_">>)>>
      [] e = "sensors" -> <<(<<"sensors", "_">>), (<<".csv">>)>>
      [] e = "exchange_rates" -> <<(<<"exchange_rates", ".xlsx">>)>>
      [] e = "shipments" -> <<(<<"shipments", ".parquet">>)>>
      [] e = "returns" -> <<(<<"returns", "_">>)>>

\* the filter of the two list comprehensions that build all_files
Matches(e, p) ==
    IF e = "events"
    THEN LET name == Basename(PathStr(p))
         IN /\ name[Len(name)] = ".jsonl"
            /\ IsPrefix(Patterns(e)[1], name)
    ELSE \A k \in DOMAIN Patterns(e) : IsInfix(Patterns(e)[k], PathStr(p))

Candidates(e) == {p \in Paths : Matches(e, p)}

\* The warehouse the run starts on: an earlier run, on a raw directory that
\* held only the master files, loaded these entities; the others have neither
\* a table nor a parquet file yet.
PreviouslyLoaded == {"customers", "products", "stores", "suppliers"}

\* what the earlier run left in the DuckDB file and in lake/bronze
OldFrame(e) == [rows |-> <<(<<e, 0>>)>>, cols |-> {"previous_run"}, dt |-> TRUE]

\* the loop variable moves to the next key
NextEntityIteration(e) ==
    /\ visited' = Append(visited, e)
    /\ eidx' = eidx + 1

\* mkdir bronze, duckdb.connect(manifest_path), summary = []
BronzeStart ==
    /\ lpc = "start"
    /\ con' = "open"
    /\ summary' = <<>>
    /\ eidx' = 1
    /\ lpc' = "glob"
    /\ UNCHANGED <<prog, otherVars, entityVars, sharedVars, df, tables, parquet, visited>>

\* the head of the loop body: build all_files from raw_path.rglob; with no
\* file "continue", else call load_entity. The files of the entity that are
\* missing from the raw directory are revealed here.
Glob ==
    /\ lpc = "glob"
    /\ eidx <= Len(Entities)
    /\ LET e == Entities[eidx]
       IN \E absent \in SUBSET (Candidates(e) \ Directories) :
            /\ faultsLeft < 0 \/ Cardinality(absent) <= faultsLeft
            /\ faultsLeft' = SpendFault(Cardinality(absent))
            /\ LET all_files == SelectPaths(RawLayout, Candidates(e) \ absent)
               IN IF all_files = <<>>
                  THEN /\ NextEntityIteration(e)
                       /\ UNCHANGED <<lpc, entityVars>>
                  ELSE /\ lpc' = "loading"
                       /\ entity_name' = e
                       /\ file_list' = all_files
                       /\ epc' = "entered"
                       /\ status' = [i \in DOMAIN all_files |-> "unsubmitted"]
                       /\ result' = [i \in DOMAIN all_files |-> NoFrame]
                       /\ raised' = [i \in DOMAIN all_files |-> "none"]
                       /\ linesRead' = [i \in DOMAIN all_files |-> 0]
                       /\ records' = [i \in DOMAIN all_files |-> <<>>]
                       /\ writes' = [i \in DOMAIN all_files |-> {}]
                       /\ processed' = 0
                       /\ yielded' = {}
                       /\ dfs' = <<>>
                       /\ merged' = NoFrame
                       /\ UNCHANGED <<workers, visited, eidx>>
    /\ UNCHANGED <<prog, otherVars, log, reads, df, con, tables, parquet, summary>>

\* a loop body without "if df.empty: continue": the empty frame is written too
AfterLoadWritesEmpty ==
    /\ lpc = "loaded"
    /\ LET e == Entities[eidx]
       IN /\ df' = normalize_datetime_columns(merged)
          /\ parquet' = [parquet EXCEPT ![e] = normalize_datetime_columns(merged)]
          /\ IF IsEmpty(merged)
             THEN lpc' = "glob" /\ NextEntityIteration(e)
             ELSE lpc' = "written" /\ UNCHANGED <<eidx, visited>>
    /\ UNCHANGED <<prog, otherVars, entityVars, sharedVars, con, tables, summary>>

\* df = load_entity(...); "if df.empty: continue"; normalize_datetime_columns;
\* df.to_parquet(output_path)
AfterLoad ==
    /\ lpc = "loaded"
    /\ LET e == Entities[eidx]
       IN IF IsEmpty(merged)
          THEN /\ df' = merged
               /\ lpc' = "glob"
               /\ NextEntityIteration(e)
               /\ UNCHANGED parquet
          ELSE /\ df' = normalize_datetime_columns(merged)
               /\ parquet' = [parquet EXCEPT ![e] = normalize_datetime_columns(merged)]
               /\ lpc' = "written"
               /\ UNCHANGED <<eidx, visited>>
    /\ UNCHANGED <<prog, otherVars, entityVars, sharedVars, con, tables, summary>>

\* CREATE OR REPLACE TABLE bronze_<entity> AS SELECT * FROM parquet_scan(...);
\* summary.append((entity, len(df), len(df.columns)))
CreateTable ==
    /\ lpc = "written"
    /\ LET e == Entities[eidx]
       IN /\ tables' = [tables EXCEPT ![e] = parquet[e]]
          /\ summary' = Append(summary, <<e, Len(df.rows), Cardinality(df.cols)>>)
          /\ NextEntityIteration(e)
    /\ lpc' = "glob"
    /\ UNCHANGED <<prog, otherVars, entityVars, sharedVars, df, con, parquet>>

\* after the loop: con.close()
BronzeClose ==
    /\ lpc = "glob"
    /\ eidx = Len(Entities) + 1
    /\ con' = "closed"
    /\ lpc' = "report"
    /\ UNCHANGED <<prog, otherVars, entityVars, sharedVars, eidx, df, tables, parquet,
                   summary, visited>>

\* the summary lines and "All Bronze tables successfully created and
\* registered in DuckDB."
BronzeReport ==
    /\ lpc = "report"
    /\ lpc' = "done"
    /\ UNCHANGED <<prog, otherVars, entityVars, sharedVars, eidx, df, con, tables, parquet,
                   summary, visited>>

NextBronze ==
    \/ BronzeStart
    \/ Glob
    \/ AfterLoad
    \/ CreateTable
    \/ BronzeClose
    \/ BronzeReport


\* -------------------------------- generate_data.py: generate_orders_partitioned
\* pd.date_range(..., freq='H'): one order per hour, 24 to a calendar day
HoursPerDay == 24

\* the calendar days the orders and their shifted duplicates can fall on
Days == 0..(((MaxOrders - 1) \div HoursPerDay) + 2)

Min(a, b) == IF a <= b THEN a ELSE b
Max(a, b) == IF a >= b THEN a ELSE b

\* int(round(num / den)) for num, den >= 0: Python rounds halves to even
RoundDiv(num, den) ==
    LET q == num \div den
        r == num % den
    IN IF 2 * r > den \/ (2 * r = den /\ q % 2 = 1) THEN q + 1 ELSE q

\* n_dup = max(1, int(round(n * 0.0005)))
DupCount(n) == Max(1, RoundDiv(n * 5, 10000))

\* the subsets of S with k elements: rng.choice(S, size=k, replace=False)
RECURSIVE KSubsets(_, _)
KSubsets(S, k) ==
    IF k = 0 THEN {{}}
    ELSE UNION {{T \cup {x} : T \in KSubsets({y \in S : y > x}, k - 1)} : x \in S}

\* a row of header_df: the order and the date it is partitioned under
HeaderRow(id, d) == [order_id |-> id, order_dt |-> d]

\* what "hdr.to_csv(path, index=False)" leaves in the file at path
ToCsv(old, grp) == grp

\* remaining = total_orders; next_order_id = 1; start_ts = 2024-01-01
OrdersStart ==
    /\ opc = "start"
    /\ remaining' = total_orders
    /\ next_order_id' = 1
    /\ start_ts' = 0
    /\ opc' = "loop"
    /\ UNCHANGED <<prog, loadVars, scriptVars, genVars, volVars, total_orders, chunk_orders, headerFiles,
                   linesFiles>>

\* one turn of "while remaining > 0": build the chunk, add the duplicated
\* orders a day later, write one header file and one lines file per date
OrdersChunk ==
    /\ opc = "loop"
    /\ remaining > 0
    /\ LET n == Min(chunk_orders, remaining)
           order_ids == next_order_id..(next_order_id + n - 1)
           DateOf(id) == (start_ts + (id - next_order_id)) \div HoursPerDay
       IN /\ start_ts' = start_ts + n
          /\ next_order_id' = next_order_id + n
          /\ remaining' = remaining - n
          /\ \E dup_oids \in KSubsets(order_ids, DupCount(n)) :
               LET header_df ==
                      {HeaderRow(id, DateOf(id)) : id \in order_ids}
                         \cup {HeaderRow(id, DateOf(id) + 1) : id \in dup_oids}
                   dates == {r.order_dt : r \in header_df}
                   Group(d) == {r \in header_df : r.order_dt = d}
               IN /\ headerFiles' =
                        [d \in Days |-> IF d \in dates
                                        THEN ToCsv(headerFiles[d], Group(d))
                                        ELSE headerFiles[d]]
                  /\ linesFiles' =
                        [d \in Days |-> IF d \in dates
                                        THEN ToCsv(linesFiles[d],
                                                   {r.order_id : r \in Group(d)})
                                        ELSE linesFiles[d]]
    /\ UNCHANGED <<prog, loadVars, scriptVars, genVars, volVars, opc, total_orders, chunk_orders>>

\* the loop is left: "Completed orders: target headers=..."
OrdersDone ==
    /\ opc = "loop"
    /\ remaining = 0
    /\ opc' = "done"
    /\ UNCHANGED <<prog, loadVars, scriptVars, genVars, volVars, total_orders, chunk_orders, remaining,
                   next_order_id, start_ts, headerFiles, linesFiles>>

NextOrders ==
    \/ OrdersStart
    \/ OrdersChunk
    \/ OrdersDone


\* ------------------------------------------------ the DuckDB warehouse file
\* names cut into pieces, so that str.startswith is computed
NameTokens(n) ==
    CASE n = "main" -> <<"main">>
      [] n = "main_stg" -> <<"main", "_stg">>
      [] n = "information_schema" -> <<"information_schema">>
      [] n = "pg_catalog" -> <<"pg_catalog">>
      [] n = "pg_catalog_archive" -> <<"pg_catalog", "_archive">>
      [] n = "bronze_customers" -> <<"bronze_", "customers">>
      [] n = "bronze_products" -> <<"bronze_", "products">>
      [] n = "bronze_stores" -> <<"bronze_", "stores">>
      [] n = "bronze_suppliers" -> <<"bronze_", "suppliers">>
      [] n = "bronze_shipments" -> <<"bronze_", "shipments">>
      [] n = "bronze_returns" -> <<"bronze_", "returns">>
      [] n = "bronze_orders_header" -> <<"bronze_", "orders_header">>
      [] n = "bronze_orders_lines" -> <<"bronze_", "orders_lines">>
      [] n = "bronze_events" -> <<"bronze_", "events">>
      [] n = "bronze_sensors" -> <<"bronze_", "sensors">>
      [] n = "bronze_exchange_rates" -> <<"bronze_", "exchange_rates">>
      [] n = "stg_customers" -> <<"stg_", "customers">>
      [] n = "stg_orders" -> <<"stg_", "orders">>
      [] n = "customers_snapshot" -> <<"customers", "_snapshot">>
      [] n = "pg_class" -> <<"pg_class">>
      [] OTHER -> <<n>>

\* s.startswith(prefix)
StartsWith(n, prefix) == IsPrefix(NameTokens(prefix), NameTokens(n))

\* a row of information_schema.tables, with the files whose rows the object
\* holds
Object(schema, name, kind, rows) ==
    [schema |-> schema, name |-> name, kind |-> kind, rows |-> rows]

\* objects a warehouse of this project may hold before a script starts, in
\* the order information_schema.tables lists them
ObjectScan == <<
    Object("main", "bronze_customers", "BASE TABLE", {"customers.csv"}),
    Object("main", "bronze_events", "VIEW", {}),
    Object("main", "bronze_exchange_rates", "VIEW", {}),
    Object("main", "bronze_exchange_rates", "BASE TABLE", {}),
    Object("main_stg", "stg_customers", "VIEW", {}),
    Object("main_stg", "stg_orders", "BASE TABLE", {}),
    Object("main_stg", "customers_snapshot", "BASE TABLE", {}),
    Object("pg_catalog_archive", "pg_class", "BASE TABLE", {}) >>

\* the warehouses made of these objects: a schema holds one object per name
Warehouses ==
    {c \in SUBSET Range(ObjectScan) :
        \A o1, o2 \in c :
           (o1.schema = o2.schema /\ o1.name = o2.name) => o1 = o2}

\* the order information_schema.schemata lists the schemas in
SchemaScan == <<"main", "main_stg", "pg_catalog_archive", "information_schema",
                "pg_catalog">>

SystemSchemas == {"information_schema", "pg_catalog"}

\* SELECT schema_name FROM information_schema.schemata
Schemata == SelectSeq(SchemaScan, LAMBDA n : n \in schemata)

\* SELECT ... FROM information_schema.tables WHERE table_schema = schema
TablesOf(schema) ==
    SelectSeq(ObjectScan, LAMBDA o : o \in catalog /\ o.schema = schema)

\* the object called name in schema, if any
Existing(schema, name) == {o \in catalog : o.schema = schema /\ o.name = name}

\* DROP TABLE [IF EXISTS] schema.name succeeds when there is no such object
\* or it is a base table; on a view DuckDB raises a Catalog Error
DropTableRaises(schema, name) ==
    \E o \in Existing(schema, name) : o.kind = "VIEW"

\* DROP VIEW schema.name succeeds on a view only
DropViewRaises(schema, name) ==
    \A o \in Existing(schema, name) : o.kind # "VIEW"

\* the catalog after a successful DROP TABLE / DROP VIEW of schema.name
Dropped(schema, name) == catalog \ Existing(schema, name)

\* ---------------------------------------------------------- show_schemas.py
\* con = duckdb.connect('duckdb/warehouse.duckdb')
ShowConnect ==
    /\ script = "show_schemas"
    /\ spc = "start"
    /\ dbcon' = "open"
    /\ spc' = "query"
    /\ UNCHANGED <<prog, loadVars, ordersVars, genVars, volVars, script, existing, schemata, catalog,
                   taskIdx, schemas, schTables, staging_tables, savedCsv>>

\* schemas = con.execute(...).fetchall(); the prints; the script ends
ShowPrint ==
    /\ script = "show_schemas"
    /\ spc = "query"
    /\ schemas' = Schemata
    /\ spc' = "ended"
    /\ UNCHANGED <<prog, loadVars, ordersVars, genVars, volVars, script, existing, dbcon, schemata, catalog,
                   taskIdx, schTables, staging_tables, savedCsv>>

\* -------------------------------------------------------- column_name_stg.py
\* conn = duckdb.connect('duckdb/warehouse.duckdb')
ColsConnect ==
    /\ script = "column_name_stg"
    /\ spc = "start"
    /\ dbcon' = "open"
    /\ spc' = "query"
    /\ UNCHANGED <<prog, loadVars, ordersVars, genVars, volVars, script, existing, schemata, catalog,
                   taskIdx, schemas, schTables, staging_tables, savedCsv>>

\* all_tables_with_schema, filtered to schema main_stg and names that start
\* with stg_
ColsList ==
    /\ script = "column_name_stg"
    /\ spc = "query"
    /\ staging_tables' =
          SelectSeq(ObjectScan,
                    LAMBDA o : /\ o \in catalog
                               /\ o.schema = "main_stg"
                               /\ StartsWith(o.name, "stg_"))
    /\ spc' = "listed"
    /\ UNCHANGED <<prog, loadVars, ordersVars, genVars, volVars, script, existing, dbcon, schemata, catalog,
                   taskIdx, schemas, schTables, savedCsv>>

\* "No staging tables found", or the columns of every staging table saved
\* to staging_table_columns.csv; the script ends
ColsReport ==
    /\ script = "column_name_stg"
    /\ spc = "listed"
    /\ savedCsv' = IF staging_tables = <<>> THEN savedCsv
                   ELSE {o.name : o \in Range(staging_tables)}
    /\ spc' = "ended"
    /\ UNCHANGED <<prog, loadVars, ordersVars, genVars, volVars, script, existing, dbcon, schemata, catalog,
                   taskIdx, schemas, schTables, staging_tables>>

\* --------------------------------------------------------- clean_up_duckDB.py
\* con = duckdb.connect(db_path); schemas = [the schemata whose name starts
\* with neither 'information_schema' nor 'pg_catalog']
CleanConnect ==
    /\ script = "clean_up_duckDB"
    /\ spc = "start"
    /\ dbcon' = "open"
    /\ schemas' = SelectSeq(Schemata,
                            LAMBDA n : /\ ~StartsWith(n, "information_schema")
                                       /\ ~StartsWith(n, "pg_catalog"))
    /\ spc' = "schemas"
    /\ UNCHANGED <<prog, loadVars, ordersVars, genVars, volVars, script, existing, schemata, catalog,
                   taskIdx, schTables, staging_tables, savedCsv>>

\* the head of "for schema in schemas": tables = ...; "if not tables: continue"
CleanSchema ==
    /\ script = "clean_up_duckDB"
    /\ spc = "schemas"
    /\ schemas # <<>>
    /\ LET tbls == TablesOf(Head(schemas))
       IN IF tbls = <<>>
          THEN /\ schemas' = Tail(schemas)
               /\ UNCHANGED <<spc, schTables>>
          ELSE /\ schTables' = tbls
               /\ spc' = "tables"
               /\ UNCHANGED schemas
    /\ UNCHANGED <<prog, loadVars, ordersVars, genVars, volVars, script, existing, dbcon, schemata, catalog,
                   taskIdx, staging_tables, savedCsv>>

\* one turn of "for (t,) in tables": DROP TABLE IF EXISTS schema.t; after
\* the last one the outer loop moves on
CleanDrop ==
    /\ script = "clean_up_duckDB"
    /\ spc = "tables"
    /\ LET t == Head(schTables)
       IN IF DropTableRaises(t.schema, t.name)
          THEN /\ spc' = "crashed"
               /\ UNCHANGED <<catalog, schTables, schemas>>
          ELSE /\ catalog' = Dropped(t.schema, t.name)
               /\ schTables' = Tail(schTables)
               /\ IF Tail(schTables) = <<>>
                  THEN /\ spc' = "schemas"
                       /\ schemas' = Tail(schemas)
                  ELSE UNCHANGED <<spc, schemas>>
    /\ UNCHANGED <<prog, loadVars, ordersVars, genVars, volVars, script, existing, dbcon, schemata, taskIdx,
                   staging_tables, savedCsv>>

\* "All tables in all schemas dropped successfully."
CleanMessage ==
    /\ script = "clean_up_duckDB"
    /\ spc = "schemas"
    /\ schemas = <<>>
    /\ spc' = "message"
    /\ UNCHANGED <<prog, loadVars, ordersVars, genVars, volVars, script, existing, dbcon, schemata, catalog,
                   taskIdx, schemas, schTables, staging_tables, savedCsv>>

\* con.close(); the script ends
CleanClose ==
    /\ script = "clean_up_duckDB"
    /\ spc = "message"
    /\ dbcon' = "closed"
    /\ spc' = "ended"
    /\ UNCHANGED <<prog, loadVars, ordersVars, genVars, volVars, script, existing, schemata, catalog,
                   taskIdx, schemas, schTables, staging_tables, savedCsv>>

\* -------------------------------------------------------- 1load_to_bronze.py
\* a path cut at its separators into components
RECURSIVE Components(_)
Components(t) ==
    IF t = <<>> THEN <<(<<>>)>>
    ELSE LET rest == Components(Tail(t))
         IN IF Head(t) = "/" THEN <<(<<>>)>> \o rest
            ELSE <<(<<Head(t)>> \o Head(rest))>> \o Tail(rest)

\* one component against one component of a glob: "*" stands for any run of
\* pieces inside the component
RECURSIVE GlobComponent(_, _)
GlobComponent(pat, t) ==
    IF pat = <<>> THEN t = <<>>
    ELSE IF Head(pat) = "*"
         THEN \E k \in 0..Len(t) :
                 GlobComponent(Tail(pat), SubSeq(t, k + 1, Len(t)))
         ELSE /\ t # <<>>
              /\ Head(t) = Head(pat)
              /\ GlobComponent(Tail(pat), Tail(t))

\* a path under RAW_DIR against a glob: as many components, each matching
GlobMatch(pattern, p) ==
    LET c == Components(RelTokens(p))
    IN /\ Len(c) = Len(pattern)
       /\ \A k \in DOMAIN pattern : GlobComponent(pattern[k], c[k])

\* the files read_csv_auto / read_parquet / read_json_auto / read_excel open
\* for a path pattern
Matched(pattern) == {p \in Paths \ Directories : GlobMatch(pattern, p)}

Task(table, func, pattern) == [table |-> table, func |-> func, pattern |-> pattern]

\* the tasks list
Tasks == <<
    Task("bronze_customers", "load_csv", <<(<<"customers", ".csv">>)>>),
    Task("bronze_products", "load_csv", <<(<<"products", ".csv">>)>>),
    Task("bronze_stores", "load_csv", <<(<<"stores", ".csv">>)>>),
    Task("bronze_suppliers", "load_csv", <<(<<"suppliers", ".csv">>)>>),
    Task("bronze_shipments", "load_parquet", <<(<<"shipments", ".parquet">>)>>),
    Task("bronze_returns", "load_parquet",
         <<(<<"returns", "_", "v1", ".parquet">>)>>),
    Task("bronze_orders_header", "load_csv",
         <<(<<"orders">>), (<<"*">>), (<<"*", ".csv">>)>>),
    Task("bronze_orders_lines", "load_csv",
         <<(<<"orders">>), (<<"*">>), (<<"*", ".csv">>)>>),
    Task("bronze_events", "load_jsonl", <<(<<"events">>), (<<"*", ".jsonl">>)>>),
    Task("bronze_sensors", "load_csv",
         <<(<<"sensors">>), (<<"*">>), (<<"*">>), (<<"*", ".csv">>)>>),
    Task("bronze_exchange_rates", "load_xlsx",
         <<(<<"exchange_rates", ".xlsx">>)>>) >>

\* f"{table}_tmp"
TempTable(table) ==
    CASE table = "bronze_events" -> "bronze_events_tmp"
      [] OTHER -> "_tmp"

\* the loop variable moves to the next task; after the last one the summary
NextTask ==
    /\ taskIdx' = taskIdx + 1
    /\ spc' = IF taskIdx = Len(Tasks) THEN "summary" ELSE "tasks"

\* duckdb.connect; PRAGMA threads; CREATE SCHEMA IF NOT EXISTS main
LoadConnect ==
    /\ script = "1load_to_bronze"
    /\ spc = "start"
    /\ dbcon' = "open"
    /\ schemata' = schemata \cup {"main"}
    /\ taskIdx' = 1
    /\ spc' = "tasks"
    /\ UNCHANGED <<prog, loadVars, ordersVars, genVars, volVars, script, existing, catalog, schemas,
                   schTables, staging_tables, savedCsv>>

\* load_csv / load_parquet: DROP TABLE IF EXISTS table; CREATE TABLE table AS
\* SELECT * FROM read_csv_auto / read_parquet(path_pattern)
LoadCsvOrParquet ==
    /\ script = "1load_to_bronze"
    /\ spc = "tasks"
    /\ Tasks[taskIdx].func \in {"load_csv", "load_parquet"}
    /\ LET t == Tasks[taskIdx]
       IN IF DropTableRaises("main", t.table)
          THEN /\ spc' = "crashed"
               /\ UNCHANGED <<catalog, taskIdx>>
          ELSE IF Matched(t.pattern) = {}
          THEN /\ catalog' = Dropped("main", t.table)
               /\ spc' = "crashed"
               /\ UNCHANGED taskIdx
          ELSE /\ catalog' = Dropped("main", t.table)
                     \cup {Object("main", t.table, "BASE TABLE", Matched(t.pattern))}
               /\ NextTask
    /\ UNCHANGED <<prog, loadVars, ordersVars, genVars, volVars, script, existing, dbcon, schemata, schemas,
                   schTables, staging_tables, savedCsv>>

\* load_jsonl: the rows go to table_tmp, then DROP TABLE IF EXISTS table and
\* ALTER TABLE table_tmp RENAME TO table
LoadJsonl ==
    /\ script = "1load_to_bronze"
    /\ spc = "tasks"
    /\ Tasks[taskIdx].func = "load_jsonl"
    /\ LET t == Tasks[taskIdx]
           tmp == TempTable(t.table)
       IN IF DropTableRaises("main", tmp)
          THEN /\ spc' = "crashed"
               /\ UNCHANGED <<catalog, taskIdx>>
          ELSE IF Matched(t.pattern) = {}
          THEN /\ catalog' = Dropped("main", tmp)
               /\ spc' = "crashed"
               /\ UNCHANGED taskIdx
          ELSE IF DropTableRaises("main", t.table)
          THEN /\ catalog' = Dropped("main", tmp)
                     \cup {Object("main", tmp, "BASE TABLE", Matched(t.pattern))}
               /\ spc' = "crashed"
               /\ UNCHANGED taskIdx
          ELSE /\ catalog' = (Dropped("main", tmp) \ Existing("main", t.table))
                     \cup {Object("main", t.table, "BASE TABLE", Matched(t.pattern))}
               /\ NextTask
    /\ UNCHANGED <<prog, loadVars, ordersVars, genVars, volVars, script, existing, dbcon, schemata, schemas,
                   schTables, staging_tables, savedCsv>>

\* a load_xlsx that drops with DROP TABLE whatever the existing object is
DropTableAlways(kind) == "DROP TABLE"

\* load_xlsx: the statement chosen from existing[0]
XlsxDropStatement(kind) == IF kind = "VIEW" THEN "DROP VIEW" ELSE "DROP TABLE"

\* load_xlsx: pd.read_excel; con.register; existing = the table_type of
\* main.table, or None; DROP VIEW or DROP TABLE when there is one; CREATE
\* TABLE table AS SELECT * FROM the registered frame
LoadXlsx ==
    /\ script = "1load_to_bronze"
    /\ spc = "tasks"
    /\ Tasks[taskIdx].func = "load_xlsx"
    /\ LET t == Tasks[taskIdx]
           found == IF Existing("main", t.table) = {} THEN "None"
                    ELSE (CHOOSE o \in Existing("main", t.table) : TRUE).kind
           raises == /\ found # "None"
                     /\ IF XlsxDropStatement(found) = "DROP VIEW"
                        THEN DropViewRaises("main", t.table)
                        ELSE DropTableRaises("main", t.table)
       IN IF Matched(t.pattern) = {}
          THEN /\ spc' = "crashed"
               /\ UNCHANGED <<catalog, taskIdx, existing>>
          ELSE /\ existing' = found
               /\ IF raises
                  THEN /\ spc' = "crashed"
                       /\ UNCHANGED <<catalog, taskIdx>>
                  ELSE /\ catalog' = Dropped("main", t.table)
                             \cup {Object("main", t.table, "BASE TABLE",
                                           Matched(t.pattern))}
                       /\ NextTask
    /\ UNCHANGED <<prog, loadVars, ordersVars, genVars, volVars, script, dbcon,
                   schemata, schemas, schTables, staging_tables, savedCsv>>

\* the table summary is printed; the script ends
LoadSummary ==
    /\ script = "1load_to_bronze"
    /\ spc = "summary"
    /\ spc' = "ended"
    /\ UNCHANGED <<prog, loadVars, ordersVars, genVars, volVars, script, existing, dbcon, schemata, catalog,
                   taskIdx, schemas, schTables, staging_tables, savedCsv>>

NextScripts ==
    \/ ShowConnect
    \/ ShowPrint
    \/ ColsConnect
    \/ ColsList
    \/ ColsReport
    \/ CleanConnect
    \/ CleanSchema
    \/ CleanDrop
    \/ CleanMessage
    \/ CleanClose
    \/ LoadConnect
    \/ LoadCsvOrParquet
    \/ LoadJsonl
    \/ LoadXlsx
    \/ LoadSummary


\* ------------------------------------------------------ generate_data.py: main
\* np.random.default_rng(seed): the stream a seed determines
Rng(seed) == <<"default_rng", seed>>

\* Faker(): the stream of an unseeded Faker, determined by the entropy the
\* process drew when it was created
FakerStream(entropy) == <<"Faker", entropy>>

\* the pos-th batch of values drawn from a stream
Draw(stream, pos) == <<stream, pos>>

\* what the operating system may hand an unseeded generator
Entropy == {1, 2}

\* FAKE = None
None == 0

\* a column built without any random draw: f"First_{i}", f"Last_{i}"
Formatted(prefix) == Draw(<<prefix, 0>>, 0)

\* a main that generates the orders before the masters
OrdersBeforeMasters == <<
    [fn |-> "generate_orders_partitioned", k |-> 4],
    [fn |-> "generate_customers", k |-> 0],
    [fn |-> "generate_products", k |-> 1],
    [fn |-> "generate_stores", k |-> 2],
    [fn |-> "generate_suppliers", k |-> 3],
    [fn |-> "generate_shipments_parquet", k |-> 5],
    [fn |-> "generate_exchange_rates_xlsx", k |-> 6],
    [fn |-> "generate_sensors_partitioned", k |-> 7],
    [fn |-> "generate_events", k |-> 8],
    [fn |-> "generate_returns", k |-> 9] >>

\* the generator calls of main, in order, with the offset added to --seed
MainCalls == <<
    [fn |-> "generate_customers", k |-> 0],
    [fn |-> "generate_products", k |-> 1],
    [fn |-> "generate_stores", k |-> 2],
    [fn |-> "generate_suppliers", k |-> 3],
    [fn |-> "generate_orders_partitioned", k |-> 4],
    [fn |-> "generate_shipments_parquet", k |-> 5],
    [fn |-> "generate_exchange_rates_xlsx", k |-> 6],
    [fn |-> "generate_sensors_partitioned", k |-> 7],
    [fn |-> "generate_events", k |-> 8],
    [fn |-> "generate_returns", k |-> 9] >>

GeneratorNames == {MainCalls[i].fn : i \in DOMAIN MainCalls}

\* scale settings that take the flags as they are under either scale
ScaleSettingsUncapped(a) ==
    [orders_target |-> a.orders,
     sensors_target |-> a.sensors_target,
     events_target |-> a.events,
     products_target |-> IF a.scale = "small" THEN 2000 ELSE 25000,
     stores_target |-> IF a.scale = "small" THEN 200 ELSE 5000,
     suppliers_target |-> IF a.scale = "small" THEN 500 ELSE 8000]

\* the "scale settings" block of main
ScaleSettings(a) ==
    IF a.scale = "small"
    THEN [orders_target |-> Min(10000, a.orders),
          sensors_target |-> Min(100000, a.sensors_target),
          events_target |-> Min(200000, a.events),
          products_target |-> 2000,
          stores_target |-> 200,
          suppliers_target |-> 500]
    ELSE [orders_target |-> a.orders,
          sensors_target |-> a.sensors_target,
          events_target |-> a.events,
          products_target |-> 25000,
          stores_target |-> 5000,
          suppliers_target |-> 8000]

\* the size argument main passes to each generator
SizeArg(fn, a) ==
    LET t == ScaleSettings(a)
    IN CASE fn = "generate_customers" -> 80000
         [] fn = "generate_products" -> t.products_target
         [] fn = "generate_stores" -> t.stores_target
         [] fn = "generate_suppliers" -> t.suppliers_target
         [] fn = "generate_orders_partitioned" -> t.orders_target
         [] fn = "generate_shipments_parquet" ->
               IF a.scale = "full" THEN 1000000 ELSE 100000
         [] fn = "generate_exchange_rates_xlsx" -> 3
         [] fn = "generate_sensors_partitioned" ->
               Max(1, t.sensors_target \div (t.stores_target * 12))
         [] fn = "generate_events" -> t.events_target
         [] fn = "generate_returns" ->
               IF a.scale = "full" THEN 100000 ELSE 10000

\* customers.csv: the columns drawn from rng = default_rng(seed), and the
\* names and addresses, which come from FAKE when faker could be imported and
\* from constants and rng otherwise
CustomersFile(seed, fake, n) ==
    [size |-> n,
     natural_key |-> Draw(Rng(seed), 1),
     first_name |-> IF fake # None THEN Draw(FakerStream(fake), 1)
                    ELSE Formatted("First_"),
     last_name |-> IF fake # None THEN Draw(FakerStream(fake), 2)
                   ELSE Formatted("Last_"),
     email |-> Draw(Rng(seed), 2),
     phone |-> Draw(Rng(seed), 3),
     address_line1 |-> IF fake # None THEN Draw(FakerStream(fake), 3)
                       ELSE Draw(Rng(seed), 4),
     address_line2 |-> IF fake # None THEN Draw(FakerStream(fake), 4)
                       ELSE Draw(Rng(seed), 5),
     others |-> Draw(Rng(seed), IF fake # None THEN 4 ELSE 6)]

\* the files of every other generator: drawn from default_rng(seed) only
SeededFile(seed, n) == [size |-> n, values |-> Draw(Rng(seed), 1)]

\* what a generator call of main writes
Written(call, a, fake) ==
    IF call.fn = "generate_customers"
    THEN CustomersFile(a.seed + call.k, fake, SizeArg(call.fn, a))
    ELSE SeededFile(a.seed + call.k, SizeArg(call.fn, a))

Absent == [size |-> 0]

\* the module is imported: "from faker import Faker; FAKE = Faker()", or
\* FAKE = None when faker is not installed
GenImport ==
    /\ gpc = "import"
    /\ FAKE' \in {None} \cup Entropy
    /\ gpc' = "clean"
    /\ UNCHANGED <<prog, loadVars, ordersVars, scriptVars, volVars, run, args, callIdx,
                   out, firstOut, stamp, mastersSeen>>

\* main: parse_args; shutil.rmtree(out) if it exists; ensure_dir(out)
GenClean ==
    /\ gpc = "clean"
    /\ out' = [g \in GeneratorNames |-> Absent]
    /\ stamp' = [g \in GeneratorNames |-> 0]
    /\ callIdx' = 1
    /\ gpc' = "calls"
    /\ UNCHANGED <<prog, loadVars, ordersVars, scriptVars, volVars, run, args, FAKE,
                   firstOut, mastersSeen>>

\* the masters generate_orders_partitioned reads back from out
MastersRead == {"generate_customers", "generate_stores", "generate_products"}

\* the next generator call of main; generate_orders_partitioned first reads
\* the three masters back with pd.read_csv, which raises when one is missing
GenCall ==
    /\ gpc = "calls"
    /\ callIdx <= Len(MainCalls)
    /\ LET call == MainCalls[callIdx]
       IN IF /\ call.fn = "generate_orders_partitioned"
             /\ \E m \in MastersRead : out[m] = Absent
          THEN /\ gpc' = "crashed"
               /\ UNCHANGED <<out, callIdx, stamp, mastersSeen>>
          ELSE /\ out' = [out EXCEPT ![call.fn] = Written(call, args, FAKE)]
               /\ stamp' = [stamp EXCEPT ![call.fn] = run]
               /\ mastersSeen' =
                      IF call.fn = "generate_orders_partitioned"
                      THEN [m \in MastersRead |-> stamp[m]]
                      ELSE mastersSeen
               /\ callIdx' = callIdx + 1
               /\ UNCHANGED gpc
    /\ UNCHANGED <<prog, loadVars, ordersVars, scriptVars, volVars, run, args, FAKE,
                   firstOut>>

\* "All data generation complete."
GenDone ==
    /\ gpc = "calls"
    /\ callIdx = Len(MainCalls) + 1
    /\ gpc' = "done"
    /\ UNCHANGED <<prog, loadVars, ordersVars, scriptVars, volVars, run, args, FAKE,
                   callIdx, out, firstOut, stamp, mastersSeen>>

\* the script is started a second time with the same command line
GenRerun ==
    /\ gpc = "done"
    /\ run = 1
    /\ run' = 2
    /\ firstOut' = out
    /\ gpc' = "import"
    /\ UNCHANGED <<prog, loadVars, ordersVars, scriptVars, volVars, args, FAKE, callIdx,
                   out, stamp, mastersSeen>>

NextGenerate ==
    \/ GenImport
    \/ GenClean
    \/ GenCall
    \/ GenDone
    \/ GenRerun

\* ------------------------------------------- generate_data.py: volumes written

\* chunk_orders=100_000 if args.scale=="full" else 10_000
ChunkOrders(a) == IF a.scale = "full" THEN 100000 ELSE 10000

\* the while loop of generate_orders_partitioned: each chunk hands out the
\* ids next_order_id .. next_order_id + n - 1; the result is the last id
RECURSIVE LastOrderId(_, _, _)
LastOrderId(rem, chunk, next) ==
    IF rem > 0
    THEN LET n == Min(chunk, rem) IN LastOrderId(rem - n, chunk, next + n)
    ELSE next - 1

\* months = 12
Months == 12

\* n_bad = max(1, int(round(n * 0.002)))
BadCount(n) == Max(1, RoundDiv(n * 2, 1000))

\* one sensors_<store>_<month>.csv: n rows, n_bad of them set to 999.0; the
\* other temperatures are drawn from uniform(-10, 50)
SensorsFile(n) == [rows |-> n, bad |-> BadCount(n)]

\* main calls generate_events with days=30
MainEventDays == 30

\* total_events and days of the generate_events call under way
EventsTotal == IF vcall.fn = "main" THEN targets.events_target ELSE vcall.total_events
EventsDays == IF vcall.fn = "main" THEN MainEventDays ELSE vcall.days

\* per_day = total_events // days
PerDay(total_events, days) == total_events \div days

\* currencies = ["USD","EUR","JPY","SGD","GBP"]
Currencies == {"USD", "EUR", "JPY", "SGD", "GBP"}

\* start = pd.Timestamp("2023-01-01")
StartYear == 2023

\* days = 365 * years + (years // 4)
RateDays(years) == 365 * years + (years \div 4)

\* the calendar pd.date_range counts in: days are numbered from 2023-01-01
IsLeap(y) == (y % 4 = 0 /\ y % 100 # 0) \/ y % 400 = 0
DaysInYear(y) == IF IsLeap(y) THEN 366 ELSE 365
RECURSIVE DaysInYears(_, _)
DaysInYears(first, n) ==
    IF n = 0 THEN 0 ELSE DaysInYear(first) + DaysInYears(first + 1, n - 1)

\* main: the "scale settings" block
MainScale ==
    /\ vpc = "main"
    /\ targets' = ScaleSettings(vcall.args)
    /\ vpc' = "orders"
    /\ UNCHANGED <<prog, loadVars, ordersVars, scriptVars, genVars, vcall,
                   orderIds, store, sensorRows, sensorFiles, day, eventFiles,
                   rates>>

\* main: generate_orders_partitioned(total_orders=orders_target, ...)
MainOrders ==
    /\ vpc = "orders"
    /\ orderIds' = LastOrderId(targets.orders_target, ChunkOrders(vcall.args), 1)
    /\ store' = 1
    /\ vpc' = "sensors"
    /\ UNCHANGED <<prog, loadVars, ordersVars, scriptVars, genVars, vcall,
                   targets, sensorRows, sensorFiles, day, eventFiles, rates>>

\* generate_sensors_partitioned: one pass of "for store in range(1,
\* stores_count+1)", which writes the store's twelve monthly files
SensorsStore ==
    /\ vpc = "sensors"
    /\ store <= targets.stores_target
    /\ LET n == SizeArg("generate_sensors_partitioned", vcall.args)
       IN /\ sensorFiles' = sensorFiles \cup {SensorsFile(n)}
          /\ sensorRows' = sensorRows + Months * n
    /\ store' = store + 1
    /\ UNCHANGED <<prog, loadVars, ordersVars, scriptVars, genVars, vpc, vcall,
                   targets, orderIds, day, eventFiles, rates>>

\* "Completed sensors generation."; main goes on to generate_events
SensorsDone ==
    /\ vpc = "sensors"
    /\ store = targets.stores_target + 1
    /\ day' = 0
    /\ vpc' = "events"
    /\ UNCHANGED <<prog, loadVars, ordersVars, scriptVars, genVars, vcall,
                   targets, orderIds, store, sensorRows, sensorFiles,
                   eventFiles, rates>>

\* generate_events: one pass of "for day in range(days)", which writes
\* events_<date>.jsonl with one line per i in range(per_day)
EventsDay ==
    /\ vpc = "events"
    /\ day < EventsDays
    /\ eventFiles' = Append(eventFiles, Max(0, PerDay(EventsTotal, EventsDays)))
    /\ day' = day + 1
    /\ UNCHANGED <<prog, loadVars, ordersVars, scriptVars, genVars, vpc, vcall,
                   targets, orderIds, store, sensorRows, sensorFiles, rates>>

\* "Completed events generation"
EventsDone ==
    /\ vpc = "events"
    /\ day = EventsDays
    /\ vpc' = "done"
    /\ UNCHANGED <<prog, loadVars, ordersVars, scriptVars, genVars, vcall,
                   targets, orderIds, store, sensorRows, sensorFiles, day,
                   eventFiles, rates>>

\* generate_exchange_rates_xlsx: one row per d in dates and cur in currencies
ExchangeRates ==
    /\ vpc = "exchange"
    /\ LET dates == 0 .. RateDays(vcall.years) - 1
       IN rates' = [rows |-> dates \X Currencies,
                    count |-> Cardinality(dates) * Cardinality(Currencies)]
    /\ vpc' = "done"
    /\ UNCHANGED <<prog, loadVars, ordersVars, scriptVars, genVars, vcall,
                   targets, orderIds, store, sensorRows, sensorFiles, day,
                   eventFiles>>

NextVolumes ==
    \/ MainScale
    \/ MainOrders
    \/ SensorsStore
    \/ SensorsDone
    \/ EventsDay
    \/ EventsDone
    \/ ExchangeRates

\* ------------------------------------------------------------ initial states
NoCall ==
    /\ entity_name = "none"
    /\ file_list = <<>>
    /\ epc = "idle"
    /\ status = <<>>
    /\ result = <<>>
    /\ raised = <<>>
    /\ linesRead = <<>>
    /\ records = <<>>
    /\ writes = <<>>
    /\ processed = 0
    /\ yielded = {}
    /\ dfs = <<>>
    /\ merged = NoFrame

NoBronze ==
    /\ lpc = "none"
    /\ eidx = 0
    /\ df = NoFrame
    /\ con = "none"
    /\ tables = [e \in EntityNames |-> NoFrame]
    /\ parquet = [e \in EntityNames |-> NoFrame]
    /\ summary = <<>>
    /\ visited = <<>>

NoOrders ==
    /\ opc = "none"
    /\ total_orders = 0
    /\ chunk_orders = 0
    /\ remaining = 0
    /\ next_order_id = 0
    /\ start_ts = 0
    /\ headerFiles = [d \in Days |-> {}]
    /\ linesFiles = [d \in Days |-> {}]

NoScripts ==
    /\ script = "none"
    /\ spc = "none"
    /\ dbcon = "none"
    /\ schemata = {}
    /\ catalog = {}
    /\ taskIdx = 0
    /\ schemas = <<>>
    /\ schTables = <<>>
    /\ staging_tables = <<>>
    /\ savedCsv = {}
    /\ existing = "None"

NoGenerate ==
    /\ gpc = "none"
    /\ run = 0
    /\ args = [seed |-> 0]
    /\ FAKE = None
    /\ callIdx = 0
    /\ out = <<>>
    /\ firstOut = <<>>
    /\ stamp = <<>>
    /\ mastersSeen = <<>>

NoVolumes ==
    /\ vpc = "none"
    /\ vcall = [fn |-> "none"]
    /\ targets = <<>>
    /\ orderIds = 0
    /\ store = 0
    /\ sensorRows = 0
    /\ sensorFiles = {}
    /\ day = 0
    /\ eventFiles = <<>>
    /\ rates = [rows |-> {}, count |-> 0]

\* load_entity(entity_name, file_list, workers) called with the files of one
\* entity, in any scan order
InitEntity ==
    /\ prog = "load_entity"
    /\ entity_name \in EntityNames
    /\ file_list \in Arrangements(Candidates(entity_name), MaxFiles) \ {<<>>}
    /\ workers \in 1..MaxWorkers
    /\ epc = "entered"
    /\ status = [i \in DOMAIN file_list |-> "unsubmitted"]
    /\ result = [i \in DOMAIN file_list |-> NoFrame]
    /\ raised = [i \in DOMAIN file_list |-> "none"]
    /\ linesRead = [i \in DOMAIN file_list |-> 0]
    /\ records = [i \in DOMAIN file_list |-> <<>>]
    /\ writes = [i \in DOMAIN file_list |-> {}]
    /\ processed = 0
    /\ yielded = {}
    /\ dfs = <<>>
    /\ merged = NoFrame
    /\ log = <<>>
    /\ reads = [p \in Paths |-> 0]
    /\ faultsLeft = -1
    /\ NoBronze
    /\ NoOrders
    /\ NoScripts
    /\ NoGenerate
    /\ NoVolumes

\* load_to_bronze(raw_dir, lake_dir, manifest_path, workers) on a warehouse
\* that an earlier run has partly filled
InitBronze ==
    /\ prog = "load_to_bronze"
    /\ NoCall
    /\ workers \in 1..MaxWorkers
    /\ log = <<>>
    /\ reads = [p \in Paths |-> 0]
    /\ faultsLeft = MaxFaults
    /\ lpc = "start"
    /\ eidx = 0
    /\ df = NoFrame
    /\ con = "none"
    /\ tables = [e \in EntityNames |-> IF e \in PreviouslyLoaded THEN OldFrame(e) ELSE NoFrame]
    /\ parquet = [e \in EntityNames |-> IF e \in PreviouslyLoaded THEN OldFrame(e) ELSE NoFrame]
    /\ summary = <<>>
    /\ visited = <<>>
    /\ NoOrders
    /\ NoScripts
    /\ NoGenerate
    /\ NoVolumes

NoLoad ==
    /\ NoCall
    /\ NoBronze
    /\ workers = 0
    /\ log = <<>>
    /\ reads = [p \in Paths |-> 0]
    /\ faultsLeft = 0

\* generate_orders_partitioned(out, total_orders, chunk_orders) on the output
\* directory main has just emptied
InitOrders ==
    /\ prog = "generate_orders_partitioned"
    /\ NoLoad
    /\ opc = "start"
    /\ total_orders \in 1..MaxOrders
    /\ chunk_orders \in 1..MaxOrders
    /\ remaining = 0
    /\ next_order_id = 0
    /\ start_ts = 0
    /\ headerFiles = [d \in Days |-> {}]
    /\ linesFiles = [d \in Days |-> {}]
    /\ NoScripts
    /\ NoGenerate
    /\ NoVolumes

Scripts == {"1load_to_bronze", "show_schemas", "column_name_stg",
            "clean_up_duckDB"}

\* one of the scripts is started on a warehouse file that holds any of the
\* objects of ObjectScan; the schemas main, information_schema and
\* pg_catalog are always there
InitScripts ==
    /\ prog = "script"
    /\ NoLoad
    /\ NoOrders
    /\ script \in Scripts
    /\ spc = "start"
    /\ dbcon = "none"
    /\ catalog \in Warehouses
    /\ schemata = SystemSchemas \cup {"main"} \cup {o.schema : o \in catalog}
    /\ taskIdx = 0
    /\ schemas = <<>>
    /\ schTables = <<>>
    /\ staging_tables = <<>>
    /\ savedCsv = {}
    /\ existing = "None"
    /\ NoGenerate
    /\ NoVolumes

\* the values of --seed, --scale and --orders tried; the other flags keep
\* their defaults
CommandLines ==
    [seed : {42, 43}, scale : {"full", "small"}, orders : {1000000, 5000},
     sensors_target : {6000000}, events : {2000000}]

\* python generate_data.py <flags>, twice
InitGenerate ==
    /\ prog = "generate_data"
    /\ NoLoad
    /\ NoOrders
    /\ NoScripts
    /\ gpc = "import"
    /\ run = 1
    /\ args \in CommandLines
    /\ FAKE = None
    /\ callIdx = 0
    /\ out = [g \in GeneratorNames |-> Absent]
    /\ firstOut = [g \in GeneratorNames |-> Absent]
    /\ stamp = [g \in GeneratorNames |-> 0]
    /\ mastersSeen = <<>>
    /\ NoVolumes

\* the values of --scale, --orders, --sensors_target and --events tried
VolumeCommandLines ==
    [seed : {42}, scale : {"full", "small"}, orders : {0, 5000, 25000},
     sensors_target : {0, 100000, 6000000}, events : {29, 200000, 2000000}]

\* the calls explored: main with a command line, generate_events(total_events,
\* days) and generate_exchange_rates_xlsx(years)
VolumeCalls ==
    [fn : {"main"}, args : VolumeCommandLines, total_events : {0}, days : {0},
     years : {0}]
    \cup [fn : {"generate_events"}, args : {[seed |-> 0]},
          total_events : 0 .. MaxEvents, days : 1 .. MaxDays, years : {0}]
    \cup [fn : {"generate_exchange_rates_xlsx"}, args : {[seed |-> 0]},
          total_events : {0}, days : {0}, years : 1 .. MaxYears]

InitVolumes ==
    /\ prog = "generate_data"
    /\ NoLoad
    /\ NoOrders
    /\ NoScripts
    /\ NoGenerate
    /\ vcall \in VolumeCalls
    /\ vpc = CASE vcall.fn = "main" -> "main"
               [] vcall.fn = "generate_events" -> "events"
               [] OTHER -> "exchange"
    /\ targets = <<>>
    /\ orderIds = 0
    /\ store = 0
    /\ sensorRows = 0
    /\ sensorFiles = {}
    /\ day = 0
    /\ eventFiles = <<>>
    /\ rates = [rows |-> {}, count |-> 0]

SpecEntity == InitEntity /\ [][NextEntity]_vars

SpecBronze == InitBronze /\ [][NextBronze \/ NextEntity]_vars

SpecOrders == InitOrders /\ [][NextOrders]_vars

SpecScripts == InitScripts /\ [][NextScripts]_vars

SpecGenerate == InitGenerate /\ [][NextGenerate]_vars

SpecVolumes == InitVolumes /\ [][NextVolumes]_vars


\* ======================================================== properties
\* the entries of load_errors.log about path p
EntriesOf(p) == {k \in DOMAIN log : log[k].path = p}
\* the entries read_file's own handler wrote about path p
FileEntriesOf(p) == {k \in DOMAIN log : log[k] = LogEntry(p, 0)}
\* the calls whose read failed
Failed == {i \in Calls : raised[i] # "none"}

RECURSIVE SumRows(_)
SumRows(frames) ==
    IF frames = <<>> THEN 0
    ELSE Len(Head(frames).rows) + SumRows(Tail(frames))

\* C1 as stated: read_file never propagates an exception; a failing read
\* leaves one entry in load_errors.log and an empty DataFrame, load_entity
\* and load_to_bronze are not aborted and the other files' rows are loaded.
C1_OneEntryPerFailedRead ==
    /\ epc # "aborted" /\ lpc # "aborted"
    /\ \A i \in Failed :
          /\ status[i] = "done"
          /\ result[i] = EmptyFrame
          /\ Cardinality(EntriesOf(file_list[i])) = 1
    /\ epc = "returned" =>
          \A j \in Calls \ Failed :
             Range(result[j].rows) \subseteq Range(merged.rows)

\* C1 amended: as above, but the one entry is the entry read_file's own
\* handler writes (the last one about that file); read_events_jsonl may have
\* written entries about single lines of the same file before it.
C1_ReadFileContainsFailure ==
    /\ epc # "aborted" /\ lpc # "aborted"
    /\ \A i \in Failed :
          /\ status[i] = "done"
          /\ result[i] = EmptyFrame
          /\ Cardinality(FileEntriesOf(file_list[i])) = 1
          /\ \A k \in EntriesOf(file_list[i]) :
                log[k].line = 0 => \A m \in EntriesOf(file_list[i]) : m <= k
    /\ \A i \in Calls \ Failed : FileEntriesOf(file_list[i]) = {}
    /\ epc = "returned" =>
          \A j \in Calls \ Failed :
             Range(result[j].rows) \subseteq Range(merged.rows)

\* C1 witness: load_entity returned although one read failed after a line
\* entry was logged, and another file's rows are in the result
C1_Witness ==
    /\ epc = "returned"
    /\ \E i \in Failed, j \in Calls \ Failed :
          /\ Cardinality(EntriesOf(file_list[i])) > 1
          /\ result[j].rows # <<>>
          /\ Range(result[j].rows) \subseteq Range(merged.rows)

\* C2: load_entity returns the concatenation, in file_list order, of the
\* non-empty results; its row count is the sum of the per-file row counts;
\* the concatenation is made only after every result was consumed and no
\* read is running any more.
C2_ConcatInFileListOrder ==
    epc = "returned" =>
       LET nonEmpty == SelectSeq([i \in Calls |-> result[i]],
                                 LAMBDA d : ~IsEmpty(d))
       IN /\ merged.rows = Flatten([k \in DOMAIN nonEmpty |-> nonEmpty[k].rows])
          /\ Len(merged.rows) = SumRows([i \in Calls |-> result[i]])
          /\ processed = Len(file_list)
          /\ yielded = Calls
          /\ \A i \in Calls : status[i] = "done"

\* C2 witness: two workers, two non-empty files, merged in file_list order
C2_Witness ==
    /\ epc = "returned"
    /\ workers >= 2
    /\ Len(dfs) >= 2
    /\ Len(merged.rows) = 2 * RowsPerFile

\* C3 as stated: no two concurrently running read_file calls write to the
\* same object or the same file.
C3_NoSharedWrites ==
    \A i \in Busy, j \in Busy : i # j => writes[i] \cap writes[j] = {}

\* C3 amended: the only thing two read_file calls of one load_entity call
\* both write, concurrently or not, is the file load_errors.log (opened in
\* append mode); every other object a call writes is its own.
C3_OnlyLogFileShared ==
    \A i \in Calls, j \in Calls :
       i # j => writes[i] \cap writes[j] \subseteq {LogFile}

\* C3 witness: two calls are running and both have appended to
\* load_errors.log, and both have written objects of their own
C3_Witness ==
    \E i \in Busy, j \in Busy :
       /\ i # j
       /\ LogFile \in writes[i] \cap writes[j]
       /\ writes[i] \ {LogFile} # {}
       /\ writes[j] \ {LogFile} # {}


\* C6 as stated: when load_to_bronze has printed its final message, a table
\* bronze_<entity> exists for every one of the 11 configured entities.
C6_AllTablesExistAtFinalMessage ==
    lpc = "done" => \A e \in EntityNames : tables[e] # NoFrame

\* C9: no retry. No path is handed to read_file more than once in a
\* load_to_bronze run; a path is read exactly once as soon as its call has
\* started, also when the read fails, and when load_entity returns every
\* path of file_list was read exactly once.
C9_NoRetry ==
    /\ \A p \in Paths : reads[p] <= 1
    /\ \A i \in Calls :
          status[i] \in {"running", "done"} => reads[file_list[i]] = 1
    /\ \A k \in DOMAIN log : reads[log[k].path] = 1
    /\ epc = "returned" => \A i \in Calls : reads[file_list[i]] = 1

\* C9 witness: the run is over, load_entity was called for several entities,
\* a read failed and its file was read once
C9_Witness ==
    /\ lpc = "done"
    /\ Len(summary) >= 2
    /\ \E k \in DOMAIN log : log[k].line = 0 /\ reads[log[k].path] = 1


\* C4 as stated: after generate_orders_partitioned(total_orders=N,
\* chunk_orders=C) completes, the header partition files together contain
\* every order_id 1..N, for every N >= 1 and C >= 1.
C4_EveryOrderInAHeaderFile ==
    opc = "done" =>
       \A id \in 1..total_orders :
          \E d \in Days : \E r \in headerFiles[d] : r.order_id = id


\* the dataset a file written by generate_data.py belongs to: the first piece
\* of its name
DatasetOf(p) == Head(Basename(PathStr(p)))

\* C5 as stated: after 1load_to_bronze.py completes on the layout written by
\* generate_data.py, each bronze table of the task list holds the rows of the
\* dataset it is named after.
C5_TablesHoldTheirDataset ==
    (script = "1load_to_bronze" /\ spc = "ended") =>
       \A k \in DOMAIN Tasks :
          \E o \in Existing("main", Tasks[k].table) :
             /\ o.kind = "BASE TABLE"
             /\ o.rows # {}
             /\ \A p \in o.rows :
                   NameTokens(o.name) = <<"bronze_", DatasetOf(p)>>

\* C7 as stated: every script that opens a DuckDB connection has closed it
\* when it ends.
C7_ConnectionClosedAtEnd ==
    spc = "ended" => dbcon = "closed"

\* C8 as stated: after clean_up_duckDB.py has printed "All tables in all
\* schemas dropped successfully", no schema other than information_schema and
\* pg_catalog contains a table or a view, and the schemas still exist.
C8_NothingLeftOutsideSystemSchemas ==
    (script = "clean_up_duckDB" /\ spc \in {"message", "ended"}) =>
       /\ \A o \in catalog : o.schema \in SystemSchemas
       /\ SystemSchemas \cup {"main"} \subseteq schemata


\* C10 as stated: two runs of main with the same --seed and the same other
\* flags write identical datasets.
C10_SameSeedSameDatasets ==
    (run = 2 /\ gpc = "done") => out = firstOut

\* C11: in main the output directory holds no file of an earlier run once the
\* calls start, the orders generator never fails on a missing master, and the
\* customers, products and stores files it reads are those written by the
\* same run, before it
C11_OrdersReadThisRunsMasters ==
    /\ gpc # "crashed"
    /\ gpc \in {"calls", "done"} =>
          \A g \in GeneratorNames : stamp[g] \in {0, run}
    /\ (gpc = "calls" /\ callIdx = 1) =>
          \A g \in GeneratorNames : out[g] = Absent
    /\ (gpc \in {"calls", "done"}
          /\ stamp["generate_orders_partitioned"] = run) =>
          /\ mastersSeen = [m \in MastersRead |-> run]
          /\ \A m \in MastersRead : out[m] # Absent /\ stamp[m] = run

\* the second run has written its orders over a directory the first run left
C11_Witness ==
    /\ run = 2
    /\ gpc = "calls"
    /\ firstOut["generate_orders_partitioned"] # Absent
    /\ stamp["generate_orders_partitioned"] = 2
    /\ mastersSeen = [m \in MastersRead |-> 2]

\* the lines of all the files of a folder of events partitions
RECURSIVE SumLines(_)
SumLines(files) ==
    IF files = <<>> THEN 0 ELSE Head(files) + SumLines(Tail(files))

\* C12: generate_events(total_events=T, days=D) has written exactly T lines
\* in total across its D daily files when it completes
C12_EventsTotalWritten ==
    (vcall.fn = "generate_events" /\ vpc = "done") =>
        /\ Len(eventFiles) = vcall.days
        /\ SumLines(eventFiles) = vcall.total_events

\* C13: under --scale small a run of main generates at most 10,000 order ids,
\* at most 100,000 sensor rows (stores * 12 * rows_per_store_month once the
\* sensors are complete) and at most 200,000 event lines, whatever the flags;
\* under --scale full the targets are the flag values
C13_SmallScaleCaps ==
    (vcall.fn = "main" /\ vpc # "main") =>
        /\ vcall.args.scale = "small" =>
              /\ orderIds <= 10000
              /\ sensorRows <= 100000
              /\ SumLines(eventFiles) <= 200000
        /\ vpc \in {"events", "done"} =>
              sensorRows = targets.stores_target * 12
                 * SizeArg("generate_sensors_partitioned", vcall.args)
        /\ vcall.args.scale = "full" =>
              /\ targets.orders_target = vcall.args.orders
              /\ targets.sensors_target = vcall.args.sensors_target
              /\ targets.events_target = vcall.args.events

\* a small run whose three flags all exceed the caps has completed
C13_Witness ==
    /\ vcall.fn = "main"
    /\ vpc = "done"
    /\ vcall.args.scale = "small"
    /\ vcall.args.orders > 10000
    /\ vcall.args.sensors_target > 100000
    /\ vcall.args.events > 200000
    /\ orderIds = 10000
    /\ sensorRows = 98400
    /\ SumLines(eventFiles) = 199980

\* C14: in every sensors partition file written, the rows carrying 999.0 are
\* between 0.1% and 0.5% of the file's rows
C14_BadShareInRange ==
    \A f \in sensorFiles :
        /\ 1000 * f.bad >= f.rows
        /\ 1000 * f.bad <= 5 * f.rows

\* C15: generate_exchange_rates_xlsx(years=3) has written exactly one row per
\* currency and calendar day of 2023-01-01 .. 2025-12-31
C15_EveryDayOfThreeYears ==
    (vcall.fn = "generate_exchange_rates_xlsx" /\ vcall.years = 3
        /\ vpc = "done") =>
        /\ rates.rows = (0 .. DaysInYears(StartYear, 3) - 1) \X Currencies
        /\ rates.count = Cardinality(rates.rows)

\* the entities with an entry in summary
Summarized == {summary[k][1] : k \in DOMAIN summary}

\* what lake/bronze and the DuckDB file held for an entity before the run
InitialOutput(e) == IF e \in PreviouslyLoaded THEN OldFrame(e) ELSE NoFrame

EntityIndex(e) == CHOOSE m \in DOMAIN Entities : Entities[m] = e

\* C17: load_to_bronze takes the entities one at a time in configured order;
\* while an entity's reads are merged its parquet file and table are still
\* those from before the run; the parquet file is written from the complete
\* merge before the table is replaced; the table holds the parquet file; and
\* the summary entry of the entity records the row and column counts of the
\* merged frame, which are those of the table
C17_MergeThenParquetThenTable ==
    /\ \A k \in DOMAIN visited : visited[k] = Entities[k]
    /\ \A k \in DOMAIN summary :
          /\ \E n \in DOMAIN visited : visited[n] = summary[k][1]
          /\ k > 1 => EntityIndex(summary[k - 1][1]) < EntityIndex(summary[k][1])
          /\ tables[summary[k][1]] = parquet[summary[k][1]]
          /\ summary[k][2] = Len(tables[summary[k][1]].rows)
          /\ summary[k][3] = Cardinality(tables[summary[k][1]].cols)
    /\ lpc \in {"loading", "loaded", "written", "aborted"} =>
          /\ eidx = Len(visited) + 1
          /\ entity_name = Entities[eidx]
          /\ Entities[eidx] \notin Summarized
          /\ tables[Entities[eidx]] = InitialOutput(Entities[eidx])
    /\ lpc \in {"loading", "loaded", "aborted"} =>
          parquet[Entities[eidx]] = InitialOutput(Entities[eidx])
    /\ lpc = "written" =>
          /\ epc = "returned"
          /\ yielded = Calls
          /\ parquet[Entities[eidx]].rows = merged.rows
          /\ parquet[Entities[eidx]].cols = merged.cols
    /\ (lpc = "glob" /\ summary # <<>>
          /\ summary[Len(summary)][1] = entity_name) =>
          /\ summary[Len(summary)][2] = Len(merged.rows)
          /\ summary[Len(summary)][3] = Cardinality(merged.cols)

\* an entity merged from two files has just got its table and summary entry,
\* after an earlier entity got its own
C17_Witness ==
    /\ lpc = "glob"
    /\ Len(summary) >= 2
    /\ summary[Len(summary)][1] = entity_name
    /\ Len(file_list) >= 2
    /\ summary[Len(summary)][2] = Len(merged.rows)
    /\ Len(merged.rows) > RowsPerFile
    /\ tables[entity_name].rows = merged.rows

\* the position of the load_xlsx task in the tasks list
XlsxTask == CHOOSE k \in DOMAIN Tasks : Tasks[k].func = "load_xlsx"

\* C18: once load_xlsx(table, path) has returned, main holds exactly one
\* object named table, a base table with the rows of the Excel file, whether
\* load_xlsx found a base table, a view or nothing under that name; and
\* load_xlsx does not fail on the object it found
C18_XlsxTableReplacesAnyObject ==
    script = "1load_to_bronze" =>
       /\ taskIdx > XlsxTask =>
             /\ existing \in {"None", "VIEW", "BASE TABLE"}
             /\ Existing("main", Tasks[XlsxTask].table) =
                   {Object("main", Tasks[XlsxTask].table, "BASE TABLE",
                           Matched(Tasks[XlsxTask].pattern))}
             /\ Matched(Tasks[XlsxTask].pattern) # {}
       /\ (spc = "crashed" /\ taskIdx = XlsxTask) =>
             Matched(Tasks[XlsxTask].pattern) = {}

\* load_xlsx found a view named bronze_exchange_rates and has returned
C18_Witness ==
    /\ script = "1load_to_bronze"
    /\ taskIdx > XlsxTask
    /\ existing = "VIEW"
    /\ \E o \in Existing("main", "bronze_exchange_rates") :
          o.kind = "BASE TABLE" /\ o.rows = {"exchange_rates.xlsx"}

\* load_xlsx found a base table and has returned
C18_WitnessTable ==
    /\ script = "1load_to_bronze"
    /\ taskIdx > XlsxTask
    /\ existing = "BASE TABLE"

\* load_xlsx found nothing and has returned
C18_WitnessNone ==
    /\ script = "1load_to_bronze"
    /\ taskIdx > XlsxTask
    /\ existing = "None"

====
